---- MODULE Spec2Model ----
(***************************************************************************)
(* State-machine model of hipsycl::compiler::LLVMToCpuTranslator           *)
(* (src/compiler/llvm-to-backend/cpu/LLVMToCpu.cpp): the configuration     *)
(* fields, the flavoring of an IR module and the lowering through an       *)
(* external clang process with two temporary files.                        *)
(***************************************************************************)
EXTENDS Integers, Sequences, FiniteSets, TLC

VARIABLES KernelNames, TargetTriple, MCpu, Errors, M, out, fs, crashed,
          nConfig, nFlavor, nLower, cfgTriple, last, pre

vars == <<KernelNames, TargetTriple, MCpu, Errors, M, out, fs, crashed,
          nConfig, nFlavor, nLower, cfgTriple, last, pre>>

(***************************************************************************)
(* Bounds of the model.                                                    *)
(***************************************************************************)
MaxConfig == 2
MaxFlavor == 1
MaxLower == 2
MaxKernelNames == 2
MaxExit == 20

(***************************************************************************)
(* Environment: the host, the strings a caller passes, the IR functions.   *)
(***************************************************************************)
ProcessTriple == "aarch64-unknown-linux-gnu"
HostCPUName == "znver3"
ClangPath == "clang"
FrontendTriple == "spir64-unknown-unknown"

OptionKeys == {"triple", "cpu", "bogus"}
OptionValues == {"x86_64-pc-linux", "generic"}

Names == {"k1", "k2"}
FuncNames == {"k1", "k2", "aux"}
Linkages == {"internal", "external"}

NoValue == "<none>"

\* Exit codes of llvm::sys::ExecuteAndWait: -1 cannot execute, -2 crashed,
\* otherwise the child's exit status.
AllExitCodes == (0 - 2) .. MaxExit
SampleExitCodes == {0 - 1, 0, 1, 17}

\* What reading Expected<TempFile>::operator-> of an errored Expected can
\* yield: the process dies, or some std::string is read.
UBOutcomes == {"abort", "\\x7f?"}

(***************************************************************************)
(* std::to_string(int) and its inverse.                                    *)
(***************************************************************************)
Digit(d) ==
  CASE d = 0 -> "0" [] d = 1 -> "1" [] d = 2 -> "2" [] d = 3 -> "3"
    [] d = 4 -> "4" [] d = 5 -> "5" [] d = 6 -> "6" [] d = 7 -> "7"
    [] d = 8 -> "8" [] d = 9 -> "9"

RECURSIVE NatToString(_)
NatToString(n) ==
  IF n < 10 THEN Digit(n) ELSE NatToString(n \div 10) \o Digit(n % 10)

to_string(n) == IF n < 0 THEN "-" \o NatToString(0 - n) ELSE NatToString(n)

(***************************************************************************)
(* The IR module: declared triple, linkage of each function, the operands  *)
(* of the named metadata "hipsycl.sscp.annotations", and whether the       *)
(* builtin library was linked and the pipeline run.                        *)
(***************************************************************************)
NewModule(linkage) ==
  [triple |-> FrontendTriple, linkage |-> linkage, annotations |-> <<>>,
   linked |-> FALSE, optimized |-> FALSE]

Modules ==
  { NewModule(l) : l \in UNION { [S -> Linkages] : S \in SUBSET FuncNames } }

RECURSIVE SeqsUpTo(_, _)
SeqsUpTo(S, n) ==
  IF n = 0 THEN { <<>> }
  ELSE LET shorter == SeqsUpTo(S, n - 1)
       IN shorter \cup { Append(s, x) : s \in shorter, x \in S }

(***************************************************************************)
(* applyBuildOption: the fields after the call and the value returned.     *)
(***************************************************************************)
\* Variant: the "triple" branch lacks its return and falls through.
ApplyOption_NoReturn(triple, cpu, Option, Value) ==
  IF Option = "cpu" THEN [ret |-> TRUE, TargetTriple |-> triple, MCpu |-> Value]
  ELSE [ret |-> FALSE,
        TargetTriple |-> IF Option = "triple" THEN Value ELSE triple,
        MCpu |-> cpu]

ApplyOption(triple, cpu, Option, Value) ==
  IF Option = "triple" THEN [ret |-> TRUE, TargetTriple |-> Value, MCpu |-> cpu]
  ELSE IF Option = "cpu" THEN [ret |-> TRUE, TargetTriple |-> triple, MCpu |-> Value]
  ELSE [ret |-> FALSE, TargetTriple |-> triple, MCpu |-> cpu]

(***************************************************************************)
(* toBackendFlavor.  AnnotateKernels is the loop over KernelNames: each    *)
(* name that resolves to a function of the module appends one operand      *)
(* (F, "kernel", 1) and forces external linkage.                           *)
(***************************************************************************)
KernelAnnotation(F) == [fn |-> F, kind |-> "kernel", value |-> 1]

\* Variant: the record is added but setLinkage is left out.
RECURSIVE AnnotateKernels_KeepsLinkage(_, _)
AnnotateKernels_KeepsLinkage(m, names) ==
  IF names = <<>> THEN m
  ELSE LET KernelName == Head(names)
           m1 == IF KernelName \in DOMAIN m.linkage
                 THEN [m EXCEPT !.annotations = Append(@, KernelAnnotation(KernelName))]
                 ELSE m
       IN AnnotateKernels_KeepsLinkage(m1, Tail(names))

RECURSIVE AnnotateKernels(_, _)
AnnotateKernels(m, names) ==
  IF names = <<>> THEN m
  ELSE LET KernelName == Head(names)
           m1 == IF KernelName \in DOMAIN m.linkage
                 THEN [m EXCEPT !.annotations = Append(@, KernelAnnotation(KernelName)),
                                !.linkage[KernelName] = "external"]
                 ELSE m
       IN AnnotateKernels(m1, Tail(names))

\* linkBitcodeFile followed by the pass pipeline, both outside this file.
LinkAndOptimize(m) == [m EXCEPT !.linked = TRUE, !.optimized = TRUE]

\* Variant: the builtin library is linked before the kernels are annotated.
FlavorResult_LinkFirst(m, names, linkOk) ==
  LET withTriple == [m EXCEPT !.triple = ProcessTriple]
      annotated == AnnotateKernels(withTriple, names)
  IN IF ~linkOk
     THEN [ret |-> FALSE, M |-> withTriple, annotated |-> withTriple]
     ELSE [ret |-> TRUE, M |-> LinkAndOptimize(annotated), annotated |-> annotated]

FlavorResult(m, names, linkOk) ==
  LET withTriple == [m EXCEPT !.triple = ProcessTriple]
      annotated == AnnotateKernels(withTriple, names)
  IN IF ~linkOk
     THEN [ret |-> FALSE, M |-> annotated, annotated |-> annotated]
     ELSE [ret |-> TRUE, M |-> LinkAndOptimize(annotated), annotated |-> annotated]

(***************************************************************************)
(* translateToBackendFormat.                                               *)
(***************************************************************************)
DumpFile == "hipsycl-sscp-cpu.ll"
InputTmpName(n) == "hipsycl-sscp-cpu-" \o to_string(n) \o ".bc"
OutputTmpName(n) == "hipsycl-sscp-cpu-" \o to_string(n) \o ".s"
CompilerOutput == "\t.text\n"

\* LLVMToBackendTranslator::registerError
registerError(log, msg) == Append(log, msg)

\* Variant: the CPU flag is pushed whatever MCpu is.
BuildInvocation_AlwaysCpu(triple, cpu, OutputFilename, InputFilename) ==
  <<ClangPath, "-cc1", "-triple", triple, "-O3", "-S", "-x",
    "ir", "-o", OutputFilename, InputFilename, "-target-cpu", cpu>>

\* Variant: the process triple is passed, as toBackendFlavor does.
BuildInvocation_ProcessTriple(triple, cpu, OutputFilename, InputFilename) ==
  LET base == <<ClangPath, "-cc1", "-triple", ProcessTriple, "-O3", "-S", "-x",
                "ir", "-o", OutputFilename, InputFilename>>
  IN IF cpu # "generic" THEN base \o <<"-target-cpu", cpu>> ELSE base

BuildInvocation(triple, cpu, OutputFilename, InputFilename) ==
  LET base == <<ClangPath, "-cc1", "-triple", triple, "-O3", "-S", "-x",
                "ir", "-o", OutputFilename, InputFilename>>
  IN IF cpu # "generic" THEN base \o <<"-target-cpu", cpu>> ELSE base

\* Variant: the failure replaces the log instead of appending to it.
CreateFailed_ResetsLog(base, log, ub) ==
  IF ub = "abort"
  THEN [base EXCEPT !.returned = FALSE]
  ELSE [base EXCEPT !.Errors = <<"LLVMToCpu: Could not create temp file: " \o ub>>]

\* Lines 136-144: a temp file could not be created.  Reading TmpName through
\* the errored Expected is undefined: ub is "abort" or the string read.
CreateFailed(base, log, ub) ==
  IF ub = "abort"
  THEN [base EXCEPT !.returned = FALSE]
  ELSE [base EXCEPT !.Errors = registerError(log,
           "LLVMToCpu: Could not create temp file: " \o ub)]

\* Variant: only a positive exit code counts as failure.
ExitFailed_Positive(R) == R > 0

\* Line 182
ExitFailed(R) == R # 0

\* Lines 183-184
ExitFailure(run, log, R) ==
  [run EXCEPT !.Errors = registerError(log,
                  "LLVMToCpu: clang invocation failed with exit code " \o to_string(R))]

\* Variant: the buffer is assigned before the read error is looked at.
ReadFailure_ClobbersOut(run, log) ==
  [run EXCEPT !.readOutput = TRUE, !.out = "",
              !.Errors = registerError(log,
                  "LLVMToCpu: Could not read result file" \o "No such file or directory")]

\* Lines 187-192
ReadFailure(run, log) ==
  [run EXCEPT !.readOutput = TRUE,
              !.Errors = registerError(log,
                  "LLVMToCpu: Could not read result file" \o "No such file or directory")]

\* Lines 187-196
ReadSuccess(run) ==
  [run EXCEPT !.readOutput = TRUE, !.ret = TRUE, !.out = CompilerOutput]

\* env: inOk, outOk (file creation), ub (what the read of an errored Expected
\* yields), R (exit code), readOk (MemoryBuffer::getFile).  The diagnostic
\* dump is written to a writable working directory.  The two AtScopeExit
\* guards exist from line 148 on: only the returns after it discard the files.
LowerResult(triple, cpu, log, buf, files, n, env) ==
  LET dumped == files \cup {DumpFile}
      created == (IF env.inOk THEN {InputTmpName(n)} ELSE {})
                   \cup (IF env.outOk THEN {OutputTmpName(n)} ELSE {})
      onDisk == dumped \cup created
      base == [returned |-> TRUE, ret |-> FALSE, Errors |-> log, out |-> buf,
               fs |-> onDisk, created |-> created, Invocation |-> <<>>,
               spawned |-> FALSE, R |-> 0, readOutput |-> FALSE]
      run == [base EXCEPT !.fs = onDisk \ created, !.spawned = TRUE, !.R = env.R,
                          !.Invocation = BuildInvocation(triple, cpu,
                                             OutputTmpName(n), InputTmpName(n))]
  IN IF ~env.inOk \/ ~env.outOk THEN CreateFailed(base, log, env.ub)
     ELSE IF ExitFailed(env.R) THEN ExitFailure(run, log, env.R)
     ELSE IF ~env.readOk THEN ReadFailure(run, log)
     ELSE ReadSuccess(run)

\* The environments that differ in what the call does: the exit code only
\* matters when both files exist, the read only when the compiler exits 0.
LowerEnvs(codes) ==
  { e \in [inOk : BOOLEAN, outOk : BOOLEAN, ub : UBOutcomes,
           R : codes, readOk : BOOLEAN] :
      /\ (e.inOk /\ e.outOk) => e.ub = "abort"
      /\ ~(e.inOk /\ e.outOk) => (e.R = 0 /\ e.readOk)
      /\ e.R # 0 => e.readOk }

(***************************************************************************)
(* State.  KernelNames, TargetTriple, MCpu, Errors are the translator's    *)
(* fields; M is the caller's module, out the caller's output buffer, fs    *)
(* the files on disk.  cfgTriple records the value of the latest           *)
(* applyBuildOption("triple", v) call, last the latest call and what it    *)
(* did, pre the state that call started from.                              *)
(***************************************************************************)
Snapshot ==
  [KernelNames |-> KernelNames, TargetTriple |-> TargetTriple, MCpu |-> MCpu,
   Errors |-> Errors, M |-> M, out |-> out, fs |-> fs]

NoCall ==
  [op |-> "none", Option |-> NoValue, Value |-> NoValue, returned |-> TRUE,
   ret |-> TRUE, Invocation |-> <<>>, spawned |-> FALSE, R |-> 0,
   readOutput |-> FALSE, created |-> {}, annotated |-> NoValue]

\* LLVMToCpuTranslator::LLVMToCpuTranslator, with the module and the buffer
\* the caller holds.
InitWith(nameSeqs, modules, buffers) ==
  /\ KernelNames \in nameSeqs
  /\ TargetTriple = ProcessTriple
  /\ MCpu = HostCPUName
  /\ Errors = <<>>
  /\ M \in modules
  /\ out \in buffers
  /\ fs = {}
  /\ crashed = FALSE
  /\ nConfig = 0
  /\ nFlavor = 0
  /\ nLower = 0
  /\ cfgTriple = NoValue
  /\ last = NoCall
  /\ pre = [KernelNames |-> KernelNames, TargetTriple |-> ProcessTriple,
            MCpu |-> HostCPUName, Errors |-> <<>>, M |-> M, out |-> out, fs |-> {}]

applyBuildOption ==
  /\ ~crashed
  /\ nConfig < MaxConfig
  /\ \E Option \in OptionKeys, Value \in OptionValues :
       LET r == ApplyOption(TargetTriple, MCpu, Option, Value)
       IN /\ TargetTriple' = r.TargetTriple
          /\ MCpu' = r.MCpu
          /\ cfgTriple' = IF Option = "triple" THEN Value ELSE cfgTriple
          /\ last' = [NoCall EXCEPT !.op = "applyBuildOption", !.Option = Option,
                                    !.Value = Value, !.ret = r.ret]
  /\ pre' = Snapshot
  /\ nConfig' = nConfig + 1
  /\ UNCHANGED <<KernelNames, Errors, M, out, fs, crashed, nFlavor, nLower>>

toBackendFlavor ==
  /\ ~crashed
  /\ nFlavor < MaxFlavor
  /\ \E linkOk \in BOOLEAN :
       LET r == FlavorResult(M, KernelNames, linkOk)
       IN /\ M' = r.M
          /\ last' = [NoCall EXCEPT !.op = "toBackendFlavor", !.ret = r.ret,
                                    !.annotated = r.annotated]
  /\ pre' = Snapshot
  /\ nFlavor' = nFlavor + 1
  /\ UNCHANGED <<KernelNames, TargetTriple, MCpu, Errors, out, fs, crashed,
                 nConfig, nLower, cfgTriple>>

translateToBackendFormat(codes) ==
  /\ ~crashed
  /\ nLower < MaxLower
  /\ \E env \in LowerEnvs(codes) :
       LET r == LowerResult(TargetTriple, MCpu, Errors, out, fs, nLower, env)
       IN /\ Errors' = r.Errors
          /\ out' = r.out
          /\ fs' = r.fs
          /\ crashed' = ~r.returned
          /\ last' = [NoCall EXCEPT !.op = "translateToBackendFormat",
                                    !.returned = r.returned, !.ret = r.ret,
                                    !.Invocation = r.Invocation, !.spawned = r.spawned,
                                    !.R = r.R, !.readOutput = r.readOutput,
                                    !.created = r.created]
  /\ pre' = Snapshot
  /\ nLower' = nLower + 1
  /\ UNCHANGED <<KernelNames, TargetTriple, MCpu, M, nConfig, nFlavor, cfgTriple>>

(***************************************************************************)
(* Specifications.  Spec: one translator driven through configuration,     *)
(* flavoring and lowering in any order.  SpecFlavor: flavoring of every    *)
(* small module under every short kernel-name list.  SpecLower: lowering   *)
(* under every exit code of the external compiler.                         *)
(***************************************************************************)
Buffers == {"", "stale"}

LifecycleModule == NewModule([f \in FuncNames |-> "internal"])

Init == InitWith({<<"k1">>}, {LifecycleModule}, Buffers)

lowerSampled == translateToBackendFormat(SampleExitCodes)

Next == applyBuildOption \/ toBackendFlavor \/ lowerSampled

Spec == Init /\ [][Next]_vars

InitFlavor == InitWith(SeqsUpTo(Names, MaxKernelNames), Modules, {""})

NextFlavor == applyBuildOption \/ toBackendFlavor

SpecFlavor == InitFlavor /\ [][NextFlavor]_vars

InitLower == InitWith({<<"k1">>}, {LifecycleModule}, Buffers)

lowerAll == translateToBackendFormat(AllExitCodes)

NextLower == lowerAll

SpecLower == InitLower /\ [][NextLower]_vars

(***************************************************************************)
(* Vocabulary of the properties.                                           *)
(***************************************************************************)
Range(seq) == { seq[i] : i \in DOMAIN seq }

Occurrences(seq, x) == Cardinality({ i \in DOMAIN seq : seq[i] = x })

AnnotationCount(m, f) ==
  Cardinality({ i \in DOMAIN m.annotations : m.annotations[i] = KernelAnnotation(f) })

RecordsNaming(m, f) ==
  Cardinality({ i \in DOMAIN m.annotations : m.annotations[i].fn = f })

IsPrefix(a, b) == Len(a) <= Len(b) /\ SubSeq(b, 1, Len(a)) = a

AppendedOne(before, after) == Len(after) = Len(before) + 1 /\ IsPrefix(before, after)

\* The integer a string of decimal digits with an optional sign denotes.
DigitValue(c) == CHOOSE d \in 0 .. 9 : Digit(d) = c

IsDigits(str) ==
  Len(str) > 0 /\ \A i \in 1 .. Len(str) : \E d \in 0 .. 9 : Digit(d) = SubSeq(str, i, i)

RECURSIVE DigitsValue(_)
DigitsValue(str) ==
  IF Len(str) = 0 THEN 0
  ELSE 10 * DigitsValue(SubSeq(str, 1, Len(str) - 1))
         + DigitValue(SubSeq(str, Len(str), Len(str)))

Denotes(str, n) ==
  IF n < 0
  THEN /\ Len(str) > 1
       /\ SubSeq(str, 1, 1) = "-"
       /\ IsDigits(SubSeq(str, 2, Len(str)))
       /\ DigitsValue(SubSeq(str, 2, Len(str))) = 0 - n
  ELSE IsDigits(str) /\ DigitsValue(str) = n

MaxDigits == 4

ContainsDecimal(msg, n) ==
  \E i \in 1 .. Len(msg), k \in 1 .. MaxDigits :
     i + k - 1 <= Len(msg) /\ Denotes(SubSeq(msg, i, i + k - 1), n)

Lowered == last.op = "translateToBackendFormat" /\ last.returned
Flavored == last.op = "toBackendFlavor"
Configured == last.op = "applyBuildOption"

ConfiguredTriple == IF cfgTriple = NoValue THEN ProcessTriple ELSE cfgTriple

(***************************************************************************)
(* C1: when a translateToBackendFormat call returns, by whichever exit     *)
(* path, no temp file created during that call is left on disk.            *)
(***************************************************************************)
C1_TempFilesRemoved == Lowered => last.created \cap fs = {}

(***************************************************************************)
(* C2: a translateToBackendFormat call that returns failure leaves out as  *)
(* it was and appends exactly one entry to Errors; a call that returns     *)
(* success appends none.                                                   *)
(***************************************************************************)
C2_FailureKeepsOutAndLogsOnce ==
  Lowered =>
    IF last.ret THEN Errors = pre.Errors
    ELSE out = pre.out /\ AppendedOne(pre.Errors, Errors)

C2_Witness ==
  /\ Lowered /\ ~last.ret /\ last.readOutput
  /\ pre.out = CompilerOutput /\ out = CompilerOutput
  /\ Len(Errors) = 1

(***************************************************************************)
(* C3 as stated: when linking the builtin library fails, toBackendFlavor   *)
(* returns failure and no function's linkage has changed and no            *)
(* annotation record has been added.                                       *)
(***************************************************************************)
C3_Original ==
  (Flavored /\ ~last.ret) =>
    M.linkage = pre.M.linkage /\ M.annotations = pre.M.annotations

(***************************************************************************)
(* C3 amended: when linking fails, toBackendFlavor returns failure with    *)
(* nothing linked, functions not named in KernelNames keep their linkage   *)
(* and gain no record, and the annotation step, which runs before linking, *)
(* stays in effect: every module function named in KernelNames is external *)
(* and has gained one record per occurrence of its name.                   *)
(***************************************************************************)
C3_Amended ==
  (Flavored /\ ~last.ret) =>
    /\ M.linked = pre.M.linked /\ M.optimized = pre.M.optimized
    /\ DOMAIN M.linkage = DOMAIN pre.M.linkage
    /\ Len(M.annotations) >= Len(pre.M.annotations)
    /\ \A f \in DOMAIN M.linkage :
         IF f \in Range(KernelNames)
         THEN /\ M.linkage[f] = "external"
              /\ AnnotationCount(M, f)
                   = AnnotationCount(pre.M, f) + Occurrences(KernelNames, f)
         ELSE /\ M.linkage[f] = pre.M.linkage[f]
              /\ RecordsNaming(M, f) = RecordsNaming(pre.M, f)

C3_Witness ==
  /\ Flavored /\ ~last.ret
  /\ \E f \in DOMAIN M.linkage :
       f \in Range(KernelNames) /\ pre.M.linkage[f] = "internal" /\ M.linkage[f] = "external"
  /\ \E g \in DOMAIN M.linkage : g \notin Range(KernelNames) /\ M.linkage[g] = "internal"

(***************************************************************************)
(* C4: after toBackendFlavor the module's target triple is the configured  *)
(* TargetTriple: the value of the latest applyBuildOption("triple", v),    *)
(* or the host triple when there was none.                                 *)
(***************************************************************************)
C4_ModuleTripleIsConfigured ==
  Flavored => M.triple = ConfiguredTriple /\ M.triple = TargetTriple

(***************************************************************************)
(* C5 as stated: after the annotation step every module function named in  *)
(* KernelNames is external and has exactly one record (F, "kernel", 1);    *)
(* every other function has its linkage unchanged and no record.           *)
(***************************************************************************)
C5_Original ==
  Flavored =>
    \A f \in DOMAIN pre.M.linkage :
      IF f \in Range(KernelNames)
      THEN /\ last.annotated.linkage[f] = "external"
           /\ AnnotationCount(last.annotated, f) = 1
           /\ RecordsNaming(last.annotated, f) = 1
      ELSE /\ last.annotated.linkage[f] = pre.M.linkage[f]
           /\ RecordsNaming(last.annotated, f) = 0

(***************************************************************************)
(* C5 amended: the annotation step makes every module function named in    *)
(* KernelNames external and adds one record (F, "kernel", 1) for each      *)
(* occurrence of its name in KernelNames (exactly one when the name occurs *)
(* once); every other function keeps its linkage and gains no record.      *)
(***************************************************************************)
C5_Amended ==
  Flavored =>
    /\ DOMAIN last.annotated.linkage = DOMAIN pre.M.linkage
    /\ \A f \in DOMAIN pre.M.linkage :
         IF f \in Range(KernelNames)
         THEN /\ last.annotated.linkage[f] = "external"
              /\ AnnotationCount(last.annotated, f)
                   = AnnotationCount(pre.M, f) + Occurrences(KernelNames, f)
              /\ RecordsNaming(last.annotated, f)
                   = RecordsNaming(pre.M, f) + Occurrences(KernelNames, f)
         ELSE /\ last.annotated.linkage[f] = pre.M.linkage[f]
              /\ RecordsNaming(last.annotated, f) = RecordsNaming(pre.M, f)

C5_Witness ==
  /\ Flavored
  /\ \E f \in DOMAIN pre.M.linkage :
       /\ Occurrences(KernelNames, f) = 2
       /\ pre.M.linkage[f] = "internal"
       /\ AnnotationCount(last.annotated, f) = 2
  /\ \E g \in DOMAIN pre.M.linkage : g \notin Range(KernelNames)

(***************************************************************************)
(* C6: applyBuildOption("triple", v) returns success and changes only      *)
(* TargetTriple, to v; applyBuildOption("cpu", v) returns success and      *)
(* changes only MCpu, to v; any other key returns failure and changes      *)
(* nothing.  Holds whatever calls came before.                             *)
(***************************************************************************)
C6_ApplyBuildOptionFrame ==
  Configured =>
    /\ KernelNames = pre.KernelNames /\ Errors = pre.Errors
    /\ M = pre.M /\ out = pre.out /\ fs = pre.fs
    /\ CASE last.Option = "triple" ->
              last.ret /\ TargetTriple = last.Value /\ MCpu = pre.MCpu
         [] last.Option = "cpu" ->
              last.ret /\ MCpu = last.Value /\ TargetTriple = pre.TargetTriple
         [] OTHER ->
              ~last.ret /\ TargetTriple = pre.TargetTriple /\ MCpu = pre.MCpu

C6_Witness ==
  /\ Configured /\ nConfig = 2
  /\ last.Option = "triple" /\ last.Value # pre.TargetTriple
  /\ pre.TargetTriple # ProcessTriple /\ MCpu = pre.MCpu

(***************************************************************************)
(* C7: when the external compiler is invoked, the argument vector ends     *)
(* with "-target-cpu", MCpu if MCpu is not "generic", and holds no         *)
(* "-target-cpu" at all if MCpu is "generic".                              *)
(***************************************************************************)
C7_TargetCpuFlag ==
  (last.op = "translateToBackendFormat" /\ last.spawned) =>
    LET inv == last.Invocation
        n == Len(inv)
        flags == { i \in 1 .. n : inv[i] = "-target-cpu" }
    IN IF pre.MCpu # "generic"
       THEN n >= 2 /\ flags = {n - 1} /\ inv[n] = pre.MCpu
       ELSE flags = {}

C7_Witness ==
  /\ last.op = "translateToBackendFormat" /\ last.spawned
  /\ pre.MCpu = "generic" /\ Len(last.Invocation) = 11

(***************************************************************************)
(* C8: when the external compiler is invoked, the argument after "-triple" *)
(* is the value of the latest applyBuildOption("triple", v), or the host   *)
(* triple when there was none, whatever other options were applied and     *)
(* whatever triple flavoring wrote into the module.                        *)
(***************************************************************************)
C8_TripleArgument ==
  (last.op = "translateToBackendFormat" /\ last.spawned) =>
    LET inv == last.Invocation
        at == { i \in 1 .. Len(inv) : inv[i] = "-triple" }
    IN at = {3} /\ inv[4] = ConfiguredTriple

C8_Witness ==
  /\ last.op = "translateToBackendFormat" /\ last.spawned
  /\ cfgTriple = "x86_64-pc-linux" /\ last.Invocation[4] = "x86_64-pc-linux"
  /\ MCpu # HostCPUName
  /\ nFlavor = 1 /\ M.triple = ProcessTriple

(***************************************************************************)
(* C9: only exit code 0 counts as success.  For every other exit code R    *)
(* the call returns failure, does not read the output file, and appends    *)
(* one entry that contains R in decimal.                                   *)
(***************************************************************************)
C9_NonZeroExitFails ==
  Lowered =>
    /\ last.ret => (last.spawned /\ last.R = 0)
    /\ (last.spawned /\ last.R # 0) =>
         /\ ~last.ret
         /\ ~last.readOutput
         /\ AppendedOne(pre.Errors, Errors)
         /\ ContainsDecimal(Errors[Len(Errors)], last.R)

C9_Witness ==
  /\ Lowered /\ last.spawned /\ last.R = 17 /\ ~last.ret
  /\ ContainsDecimal(Errors[Len(Errors)], 17)

(***************************************************************************)
(* C10 as stated: once a call on the translator has failed, no later call  *)
(* on it succeeds.                                                         *)
(***************************************************************************)
C10_Original ==
  [][(last.op # "none" /\ ~last.ret) => ~last'.ret]_vars

(***************************************************************************)
(* C10 amended: a failed call does not end the translator's life, later    *)
(* calls can succeed; what is kept is the log: no call removes or changes  *)
(* an entry of Errors.                                                     *)
(***************************************************************************)
C10_ErrorsAppendOnly ==
  [][IsPrefix(Errors, Errors')]_vars

C10_Witness ==
  /\ Lowered /\ last.ret
  /\ Len(pre.Errors) = 1 /\ Errors = pre.Errors

====
